---- MODULE Spec2Model ----
(***************************************************************************)
(* Scan orchestration engine of the fuzz backend: the job state machine of *)
(* services/scanner/runner.py (run_scan_sync), the tool adapters it drives *)
(* (services/tools), the workspace it prepares (services/scanner/          *)
(* workspace.py) and the failure classifier (services/diagnostics).        *)
(***************************************************************************)
EXTENDS Integers, Sequences, FiniteSets, TLC

\* ------------------------------------------------------------------ bounds
\* Longest requested tool list (Scan.tools).
MaxTools == 3
\* Number of run_scan_sync invocations for the job.
MaxRuns == 2
MaxEntries == 2

\* ------------------------------------------------------- nullable columns
\* A nullable column holds None or Some(value).
None == <<>>
Some(x) == <<x>>
\* Python truthiness of an Optional[str]: None and "" are falsy.
Truthy(v) == v /= None /\ v /= Some("")

\* ------------------------------------------------------------------ enums
PENDING == "PENDING"
RUNNING == "RUNNING"
SUCCESS == "SUCCESS"
SUCCEEDED == "SUCCEEDED"
FAILED == "FAILED"
RETRYING == "RETRYING"
ScanStatus == {PENDING, RUNNING, SUCCESS, FAILED}
ToolExecutionStatus == {PENDING, RUNNING, SUCCEEDED, FAILED, RETRYING}

\* Tool names a scan may request: "slither" is served by SlitherToolRunner,
\* "custom" by some other implementation of ToolRunnerProtocol handed to
\* run_scan_sync, and "mythril" by nothing.
ToolNames == {"custom", "mythril", "slither"}
\* The tool_runners mapping's keys.
tool_runners == {"custom", "slither"}
\* ToolExecution.tool.asc(): the rank of a name in ascending order.
ToolRank(t) == CASE t = "custom" -> 1 [] t = "mythril" -> 2 [] t = "slither" -> 3

\* The workspace's directories, in the order ensure_created makes them.
WorkspaceDirs == <<"root", "contracts", "logs", "artifacts", "tmp">>

\* ------------------------------------------------- process-execution harness
\* A captured text is the set of signature phrases it contains, lower-cased;
\* "other" stands for text that matches no signature, {} is the empty text.
\* A captured stdout also records how json.loads takes it.
Text(phrases, json) == [phrases |-> phrases, json |-> json]
EmptyOutput == Text({}, "empty")

\* ToolResult of a process that ran to its end.
Completed(rc, out, err) ==
  [success |-> rc = 0, output |-> out,
   error |-> IF err = {} THEN None ELSE Some(err),
   return_code |-> Some(rc), parsing_error |-> None, failure_reason |-> None]
\* TimedOut without the marker in failure_reason.
TimedOut_NoMarker(out) ==
  [success |-> FALSE, output |-> out, error |-> Some({"timeout"}),
   return_code |-> None, parsing_error |-> None, failure_reason |-> None]

\* ToolResult of subprocess.TimeoutExpired.
TimedOut(out) ==
  [success |-> FALSE, output |-> out, error |-> Some({"timeout"}),
   return_code |-> None, parsing_error |-> None, failure_reason |-> Some("timeout")]
\* ToolResult of an OSError while spawning.
SpawnFailed(out, msg) ==
  [success |-> FALSE, output |-> out, error |-> Some(msg),
   return_code |-> None, parsing_error |-> None,
   failure_reason |-> Some("process-spawn-error")]

\* subprocess.run(..., timeout=max_runtime or timeout): Python's `or` takes
\* timeout when max_runtime is None or 0.
RuntimeBound(timeout, max_runtime) ==
  IF max_runtime = None \/ max_runtime = Some(0) THEN timeout ELSE max_runtime[1]

\* run_command on a process that cannot be spawned, or runs for
\* proc.duration seconds and would then exit with proc.rc. The output of a
\* stopped process is what it had written to stdout by then.
run_command(proc, timeout, max_runtime) ==
  IF ~proc.spawns
    THEN SpawnFailed(EmptyOutput, {"other"})
  ELSE IF proc.duration > RuntimeBound(timeout, max_runtime)
    THEN TimedOut(proc.partial)
  ELSE Completed(proc.rc, proc.out, proc.err)

\* What run_command hands the adapters of this model.
RunCommandResults ==
  { Completed(0, Text({"other"}, "valid"), {}),
    Completed(0, Text({"other"}, "invalid"), {}),
    Completed(1, EmptyOutput, {"cannot connect to the docker daemon"}),
    TimedOut(EmptyOutput) }

\* ------------------------------------------------------------ error classifier
_contains_any(haystack, needles) == haystack \cap needles /= {}

\* classify_tool_failure looking for a tool's not-found signature only in the
\* output of that tool.
classify_tool_failure_ToolSpecific(tool, result) ==
  LET combined == result.output.phrases
                    \cup (IF result.error = None THEN {} ELSE result.error[1])
  IN  IF result.failure_reason \in {Some("timeout"), Some("process-spawn-error")}
        THEN result.failure_reason[1]
      ELSE IF tool = "echidna"
              /\ _contains_any(combined, {"echidna-test: command not found",
                                          "echidna: command not found"})
        THEN "tool-not-found"
      ELSE IF tool = "slither" /\ "slither: command not found" \in combined
        THEN "tool-not-found"
      ELSE IF tool = "foundry"
              /\ _contains_any(combined, {"forge: command not found",
                                          "foundry: command not found"})
        THEN "tool-not-found"
      ELSE IF result.return_code /= None /\ result.return_code /= Some(0)
        THEN "tool-non-zero-exit"
      ELSE "unknown-error"

\* classify_tool_failure echoing the reason it was handed and nothing else.
classify_tool_failure_EchoOnly(tool, result) ==
  IF Truthy(result.failure_reason) THEN result.failure_reason[1] ELSE ""

classify_tool_failure(tool, result) ==
  LET stdout == result.output.phrases
      stderr == IF result.error = None THEN {} ELSE result.error[1]
      combined == stdout \cup stderr
      rc == result.return_code
      existing_reason == result.failure_reason
  IN  IF existing_reason \in {Some("timeout"), Some("process-spawn-error")}
        THEN existing_reason[1]
      ELSE IF _contains_any(stderr, {"timeout", "timed out"})
        THEN "tool-timeout"
      ELSE IF Truthy(result.parsing_error)
        THEN "tool-output-parse-error"
      ELSE IF _contains_any(combined,
                {"cannot connect to the docker daemon",
                 "is the docker daemon running",
                 "permission denied while trying to connect to the docker daemon"})
        THEN "docker-daemon-unavailable"
      ELSE IF _contains_any(combined,
                {"no such file or directory: 'docker'", "docker: not found"})
        THEN "docker-binary-not-found"
      ELSE IF _contains_any(combined,
                {"pull access denied for", "repository does not exist",
                 "manifest unknown", "no such image"})
        THEN "docker-image-not-found"
      ELSE IF _contains_any(combined,
                {"compilererror", "parsererror", "typeerror", "syntaxerror",
                 "could not compile", "failed to compile", "compile error",
                 "error while compiling"})
        THEN "tool-compilation-error"
      ELSE IF _contains_any(combined,
                {"forge build failed", "failed to build", "build failed",
                 "error: could not compile"})
        THEN "tool-build-error"
      ELSE IF _contains_any(combined,
                {"echidna-test: command not found", "echidna: command not found"})
        THEN "tool-not-found"
      ELSE IF "slither: command not found" \in combined
        THEN "tool-not-found"
      ELSE IF _contains_any(combined,
                {"forge: command not found", "foundry: command not found"})
        THEN "tool-not-found"
      ELSE IF _contains_any(combined,
                {"runtime error", "panic:", "stack trace:", "segmentation fault",
                 "segfault"})
        THEN "tool-runtime-error"
      ELSE IF rc /= None /\ rc /= Some(0)
        THEN "tool-non-zero-exit"
      ELSE IF Truthy(existing_reason)
        THEN existing_reason[1]
      ELSE "unknown-error"

\* ------------------------------------------------------------- tool adapters
\* What one call of runner.run leaves behind: the session's execution object,
\* whether the call raised, whether it assigned failure_reason, and the state
\* of the object that store_normalized_findings committed on the way (if any).
AdapterOutcome(e, raised, wrote, flushed) ==
  [exec |-> e, exc |-> raised, wrote |-> wrote, flushed |-> flushed]

\* SlitherToolRunner.run from run_command's result on.
SlitherAfterCommand(e, result) ==
  LET meta == [e EXCEPT !.exit_code = result.return_code,
                        !.parsing_error = result.parsing_error]
      classified ==
        IF ~result.success
          THEN [meta EXCEPT !.failure_reason =
                               Some(classify_tool_failure("slither", result))]
          ELSE meta
      parses == result.success /\ result.output.json /= "empty"
      decode_error == parses /\ result.output.json = "invalid"
      other_error == parses /\ result.output.json = "nondict"
      with_error == [result EXCEPT !.parsing_error = Some("JSONDecodeError")]
      parsed ==
        IF decode_error
          THEN [classified EXCEPT
                  !.parsing_error = Some("JSONDecodeError"),
                  !.failure_reason =
                     Some(classify_tool_failure("slither", with_error))]
          ELSE classified
      final == [parsed EXCEPT
                  !.status = IF result.success THEN SUCCEEDED ELSE FAILED]
  IN  IF other_error
        THEN AdapterOutcome(classified, TRUE, FALSE, None)
        ELSE AdapterOutcome(final, FALSE, ~result.success \/ decode_error,
                            Some(parsed))

\* SlitherToolRunner.run: log_dir.mkdir may raise before anything is written.
SlitherToolRunner_run(e) ==
  {AdapterOutcome(e, TRUE, FALSE, None)}
    \cup {SlitherAfterCommand(e, result) : result \in RunCommandResults}

\* EchidnaToolRunner.run from run_command's result on: the same steps as
\* Slither's, with data.get("errors", []) as the parse.
EchidnaAfterCommand(e, result) ==
  LET meta == [e EXCEPT !.exit_code = result.return_code,
                        !.parsing_error = result.parsing_error]
      classified ==
        IF ~result.success
          THEN [meta EXCEPT !.failure_reason =
                               Some(classify_tool_failure("echidna", result))]
          ELSE meta
      parses == result.success /\ result.output.json /= "empty"
      decode_error == parses /\ result.output.json = "invalid"
      other_error == parses /\ result.output.json = "nondict"
      with_error == [result EXCEPT !.parsing_error = Some("JSONDecodeError")]
      parsed ==
        IF decode_error
          THEN [classified EXCEPT
                  !.parsing_error = Some("JSONDecodeError"),
                  !.failure_reason =
                     Some(classify_tool_failure("echidna", with_error))]
          ELSE classified
      final == [parsed EXCEPT
                  !.status = IF result.success THEN SUCCEEDED ELSE FAILED]
  IN  IF other_error
        THEN AdapterOutcome(classified, TRUE, FALSE, None)
        ELSE AdapterOutcome(final, FALSE, ~result.success \/ decode_error,
                            Some(parsed))

\* FoundryAfterCommand reporting SUCCEEDED whatever the harness said.
FoundryAfterCommand_AlwaysSucceeded(e, result) ==
  AdapterOutcome([e EXCEPT !.exit_code = result.return_code,
                           !.parsing_error = result.parsing_error,
                           !.status = SUCCEEDED],
                 FALSE, FALSE, None)

\* FoundryToolRunner.run from run_command's result on. _parse_foundry_output
\* skips the lines json.loads rejects, so no parsing error is ever recorded;
\* "command-failed" is the reason when nothing else gave one.
FoundryAfterCommand(e, result) ==
  LET meta == [e EXCEPT !.exit_code = result.return_code,
                        !.parsing_error = result.parsing_error]
      classified ==
        IF ~result.success
          THEN [meta EXCEPT !.failure_reason =
                               Some(classify_tool_failure("foundry", result))]
          ELSE meta
      no_findings == result.output.json /= "valid"
      defaulted ==
        IF no_findings /\ ~result.success /\ ~Truthy(classified.failure_reason)
          THEN [classified EXCEPT !.failure_reason = Some("command-failed")]
          ELSE classified
      final == [defaulted EXCEPT
                  !.status = IF result.success THEN SUCCEEDED ELSE FAILED]
  IN  AdapterOutcome(final, FALSE,
                     ~result.success, Some(defaulted))

\* The NormalizedFinding list an adapter builds; only the tool of a finding is
\* kept. entries is the number of entries of the decoded output that yield a
\* finding: detectors for Slither, errors for Echidna, failing tests for Foundry.
NormalizedFindings(tool, entries) == [k \in 1..entries |-> [tool |-> tool]]

\* Step 4 of SlitherToolRunner.run: parse only a successful, non-empty output.
SlitherFindings(result, entries) ==
  IF result.success /\ result.output.json = "valid"
    THEN NormalizedFindings("slither", entries) ELSE <<>>

\* Step 4 of EchidnaToolRunner.run.
EchidnaFindings(result, entries) ==
  IF result.success /\ result.output.json = "valid"
    THEN NormalizedFindings("echidna", entries) ELSE <<>>

\* _parse_foundry_output(result.output or "", ...): every line that decodes
\* is searched for failing entries, whatever the harness reported.
_parse_foundry_output(output, entries) ==
  IF output.json = "valid"
    THEN NormalizedFindings("foundry", entries) ELSE <<>>

\* store_normalized_findings: one db.add per finding, one commit, the count.
store_normalized_findings(findings) ==
  [created |-> findings, commits |-> 1, count |-> Len(findings)]

\* The findings part of an adapter's run: the call of store_normalized_findings
\* and the findings_count it leaves on the execution, or the exception of
\* data.get on a decoded value that is not a dict.
AdapterFindings(tool, result, entries) ==
  LET findings == CASE tool = "slither" -> SlitherFindings(result, entries)
                    [] tool = "echidna" -> EchidnaFindings(result, entries)
                    [] tool = "foundry" -> _parse_foundry_output(result.output, entries)
      stored == store_normalized_findings(findings)
  IN  IF tool /= "foundry" /\ result.success /\ result.output.json = "nondict"
        THEN [raised |-> "AttributeError", value |-> None]
        ELSE [raised |-> "",
              value |-> [findings_count |-> stored.count, created |-> stored.created,
                         store_calls |-> 1, parsed |-> findings]]

\* Any other ToolRunnerProtocol implementation may assign what it likes and
\* return or raise; the ones of this model: return leaving the status alone,
\* return having set RETRYING, and raise after assigning a failure_reason.
ToolRunnerProtocol_run(e) ==
  { AdapterOutcome(e, FALSE, FALSE, None),
    AdapterOutcome([e EXCEPT !.status = RETRYING], FALSE, FALSE, None),
    AdapterOutcome([e EXCEPT !.failure_reason = Some("tool-runtime-error")],
                   TRUE, TRUE, None) }

\* runner.run(db=db, context=context, execution=exec_) for the runner of a tool.
runner_run(e) ==
  IF e.tool = "slither" THEN SlitherToolRunner_run(e) ELSE ToolRunnerProtocol_run(e)

\* ------------------------------------------------------------------- runner
\* models.ToolExecution(scan_id=..., tool=tool_name, status=PENDING, attempt=0).
NewToolExecution(tool_name) ==
  [tool |-> tool_name, status |-> PENDING, attempt |-> 0,
   started_at |-> None, finished_at |-> None, duration_seconds |-> None,
   exit_code |-> None, parsing_error |-> None, failure_reason |-> None]

\* _ensure_tool_executions: the rows after it committed. existing_by_tool is
\* read once, before the loop over scan.tools.
_ensure_tool_executions(rows, tools) ==
  LET existing_by_tool == {rows[k].tool : k \in DOMAIN rows}
      missing == SelectSeq(tools, LAMBDA t : t \notin existing_by_tool)
  IN  rows \o [k \in 1..Len(missing) |-> NewToolExecution(missing[k])]

\* The query without its order_by: the rows as they were inserted.
OrderedExecutions_Unsorted(rows) == [k \in 1..Len(rows) |-> k]

\* The two halves of _ensure_tool_executions: the query that fills
\* existing_by_tool, and the loop over scan.tools with its commit.
ExistingByTool(rows) == {rows[k].tool : k \in DOMAIN rows}
AddMissing(rows, tools, existing_by_tool) ==
  LET missing == SelectSeq(tools, LAMBDA t : t \notin existing_by_tool)
  IN  rows \o [k \in 1..Len(missing) |-> NewToolExecution(missing[k])]

\* query(ToolExecution).filter(scan_id == scan.id).order_by(tool.asc()).all()
OrderedExecutions(rows) ==
  SortSeq([k \in 1..Len(rows) |-> k],
          LAMBDA a, b : \/ ToolRank(rows[a].tool) < ToolRank(rows[b].tool)
                        \/ ToolRank(rows[a].tool) = ToolRank(rows[b].tool) /\ a < b)

\* MarkUnsupported leaving the attempt counter alone.
MarkUnsupported_NoAttempt(e, now) ==
  [e EXCEPT !.status = FAILED,
            !.failure_reason = Some("unsupported_tool"),
            !.started_at = IF @ = None THEN Some(now) ELSE @,
            !.finished_at = Some(now),
            !.duration_seconds = IF @ = None \/ @ = Some(0) THEN Some(0) ELSE @]

\* MarkUnsupported without the stamp of finished_at.
MarkUnsupported_NoFinishedAt(e, now) ==
  [e EXCEPT !.status = FAILED,
            !.failure_reason = Some("unsupported_tool"),
            !.attempt = @ + 1,
            !.started_at = IF @ = None THEN Some(now) ELSE @,
            !.duration_seconds = IF @ = None \/ @ = Some(0) THEN Some(0) ELSE @]

\* The branch of the loop for a tool no runner is registered for.
MarkUnsupported(e, now) ==
  [e EXCEPT !.status = FAILED,
            !.failure_reason = Some("unsupported_tool"),
            !.attempt = @ + 1,
            !.started_at = IF @ = None THEN Some(now) ELSE @,
            !.finished_at = Some(now),
            !.duration_seconds = IF @ = None \/ @ = Some(0) THEN Some(0) ELSE @]

\* MarkRunning stamping started_at at every attempt.
MarkRunning_AlwaysStamps(e, now) ==
  [e EXCEPT !.status = RUNNING,
            !.attempt = @ + 1,
            !.started_at = Some(now)]

\* "Mark as running for this attempt".
MarkRunning(e, now) ==
  [e EXCEPT !.status = RUNNING,
            !.attempt = @ + 1,
            !.started_at = IF @ = None THEN Some(now) ELSE @]

\* The except clause around runner.run.
OnRunnerException(e) ==
  [e EXCEPT !.status = FAILED,
            !.failure_reason = IF Truthy(@) THEN @ ELSE Some("runner_exception")]

\* FinalizeExecution without the default of a non-terminal status.
FinalizeExecution_NoDefault(e, now) ==
  [e EXCEPT !.finished_at = Some(now),
            !.duration_seconds =
               IF e.started_at /= None /\ @ = None
                 THEN Some(now - e.started_at[1]) ELSE @]

\* "Finalize timing" and the default of a non-terminal status.
FinalizeExecution(e, now) ==
  LET timed == [e EXCEPT !.finished_at = Some(now),
                         !.duration_seconds =
                            IF e.started_at /= None /\ @ = None
                              THEN Some(now - e.started_at[1]) ELSE @]
  IN  [timed EXCEPT !.status = IF @ \notin {SUCCEEDED, FAILED} THEN SUCCEEDED ELSE @]

\* FinalStatus asking every execution to be SUCCEEDED.
FinalStatus_AllSucceeded(rows) ==
  IF rows /= <<>> /\ \A k \in DOMAIN rows : rows[k].status = SUCCEEDED
    THEN SUCCESS ELSE FAILED

\* The scan's final status from the count of SUCCEEDED executions.
FinalStatus(rows) ==
  LET success_count == Cardinality({k \in DOMAIN rows : rows[k].status = SUCCEEDED})
  IN  IF success_count > 0 THEN SUCCESS ELSE FAILED

\* _build_logs_snapshot: one entry per execution of the scan, in the order of
\* the query; of an entry's keys the model keeps tool, status, attempt and
\* failure_reason.
_build_logs_snapshot(rows) ==
  LET order == OrderedExecutions(rows)
  IN  [k \in 1..Len(order) |->
         [tool |-> rows[order[k]].tool, status |-> rows[order[k]].status,
          attempt |-> rows[order[k]].attempt,
          failure_reason |-> rows[order[k]].failure_reason]]

\* The log written by the except clause around _load_scan_context: a single
\* entry for the tool "runner" (its "error" text is left out).
RunnerFailureLog == <<[tool |-> "runner", status |-> FAILED]>>

\* What the model keeps of a stored snapshot: the tool of each entry, in the
\* snapshot's order. The other keys of an entry are those _build_logs_snapshot
\* gives at the time of the write.
StoredSnapshot(snapshot) == [k \in DOMAIN snapshot |-> [tool |-> snapshot[k].tool]]

\* ------------------------------------------------------------------- paths
\* A path string is the sequence of its tokens: names and the separator "/".
\* "" is <<>>, "/" is <<"/">>, "contracts/Foo.sol" is <<"contracts", "/", "Foo.sol">>.
\* str.lstrip("/").
RECURSIVE lstrip_slash(_)
lstrip_slash(str) ==
  IF str /= <<>> /\ Head(str) = "/" THEN lstrip_slash(Tail(str)) ELSE str

\* pathlib's Path(str).parts: the anchor "/" of an absolute path, then the
\* names; empty and "." components are dropped.
PathParts(str) ==
  LET names == SelectSeq(str, LAMBDA t : t /= "/" /\ t /= ".")
  IN  IF str /= <<>> /\ Head(str) = "/" THEN <<"/">> \o names ELSE names

\* Path.as_posix() and str(Path): the parts joined by "/"; "." for no part.
RECURSIVE as_posix(_)
as_posix(parts) ==
  IF parts = <<>> THEN <<".">>
  ELSE IF Len(parts) = 1 THEN parts
  ELSE IF Head(parts) = "/" THEN <<"/">> \o as_posix(Tail(parts))
  ELSE <<Head(parts), "/">> \o as_posix(Tail(parts))

\* container_root of every adapter.
container_root == <<"/", "project">>

\* _resolve_container_target of slither_tool.py and echidna_tool.py (the two
\* are the same code); project_root_name is project_root.name.
_resolve_container_target(scan_target, project_root_name) ==
  LET raw_target == IF scan_target = None THEN <<>> ELSE scan_target[1]
      parts == PathParts(lstrip_slash(raw_target))
      rel == IF parts /= <<>> /\ parts[1] = project_root_name
               THEN Tail(parts) ELSE parts
  IN  IF raw_target = <<>> \/ raw_target = <<".">> \/ raw_target = <<"/">>
        THEN container_root
      ELSE IF rel = <<>>
        THEN container_root
      ELSE container_root \o <<"/">> \o as_posix(rel)

\* FoundryToolRunner.run: container_target = f"{container_root}/{target_rel}".
FoundryContainerTarget(scan_target) ==
  container_root \o <<"/">> \o scan_target

\* ":" in raw_str: the path string holds a drive marker.
HasDriveMarker(str) == \E k \in DOMAIN str : str[k] \in {"C:", "D:"}

\* _resolve_host_project_root of slither_tool.py and echidna_tool.py (the two
\* are the same code): the parts of the path bound to the container root.
\* base is settings.projects_host_root.
_resolve_host_project_root(raw_path, base, project_root) ==
  IF raw_path /= <<>> /\ HasDriveMarker(raw_path)
    THEN PathParts(raw_path)
  ELSE IF raw_path /= <<>> /\ Truthy(base)
    THEN PathParts(base[1]) \o PathParts(lstrip_slash(raw_path))
  ELSE project_root

\* The working directory of the worker process.
WorkerCwd == <<"/", "app">>

\* FoundryToolRunner.run: project_path = Path(project.path).resolve(), which
\* anchors a relative path at the working directory.
FoundryProjectPath(raw_path) ==
  IF raw_path /= <<>> /\ Head(raw_path) = "/"
    THEN PathParts(raw_path) ELSE WorkerCwd \o PathParts(raw_path)

\* The left side of the adapter's `-v HOST:/project`.
HostMountPath(tool, raw_path, base, project_root) ==
  IF tool = "foundry" THEN FoundryProjectPath(raw_path)
  ELSE _resolve_host_project_root(raw_path, base, project_root)

\* --------------------------------------------------------------- workspace
\* Settings.workspace_root, as a path's parts.
workspace_root == <<"/", "workspaces">>

\* build_workspace_root mounting every scan of a project on the project's
\* directory.
build_workspace_root_PerProject(project_id, scan_id) ==
  workspace_root \o <<project_id>>

\* build_workspace_root: Path(settings.workspace_root) / project_id / scan_id.
build_workspace_root(project_id, scan_id) ==
  workspace_root \o <<project_id, scan_id>>

\* Path.relative_to / is_relative_to on parts: a is b or lies under b.
IsRelativeTo(a, b) ==
  Len(b) <= Len(a) /\ SubSeq(a, 1, Len(b)) = b

\* Value or exception of a call.
Returned(v) == [raised |-> "", value |-> v]
Raised(exc_type) == [raised |-> exc_type, value |-> None]

\* _dispatch_scan(db, scan): run_scan_task.delay(scan.id) queues the task or
\* raises; the db.commit() of the try block and the one of the except clause
\* succeed or raise. The value tells whether the task was queued, whether
\* execute_scan was called inline, and the execution_mode committed (None when
\* no commit succeeded).
_dispatch_scan(delay_ok, commit_ok, fallback_commit_ok) ==
  IF delay_ok /\ commit_ok
    THEN [raised |-> "",
          value |-> [queued |-> TRUE, inline |-> FALSE,
                     execution_mode |-> Some("celery")]]
  ELSE IF fallback_commit_ok
    THEN [raised |-> "",
          value |-> [queued |-> delay_ok, inline |-> TRUE,
                     execution_mode |-> Some("inline")]]
  ELSE [raised |-> "SQLAlchemyError",
        value |-> [queued |-> delay_ok, inline |-> FALSE,
                   execution_mode |-> None]]

\* The workspace root of the scan whose filesystem the model follows, and
\* Workspace.contracts_dir of that workspace.
ThisWorkspace == build_workspace_root("p-1", "s-1")
contracts_dir == ThisWorkspace \o <<"contracts">>

\* A file is the parts of its path; a directory is there through the files
\* under it.
Under(path, dir) == Len(path) > Len(dir) /\ SubSeq(path, 1, Len(dir)) = dir

\* The files outside the contracts directory when the job starts: a project's
\* sources, and a log and a source of another job of the project.
OutsideFiles ==
  { <<"/", "data", "proj", "Token.sol">>,
    <<"/", "data", "proj", "lib", "Math.sol">>,
    build_workspace_root("p-1", "s-2") \o <<"logs", "slither", "stdout.log">>,
    build_workspace_root("p-1", "s-2") \o <<"contracts", "Other.sol">> }

\* Path(project_path).expanduser() for the project paths of the model: one
\* that does not exist, a file, a directory, the contracts directory itself,
\* a path under it that does not exist, and the directory of all workspaces.
SourcePath(source) ==
  CASE source = "missing" -> <<"/", "data", "gone">>
    [] source = "file" -> <<"/", "data", "proj", "Token.sol">>
    [] source = "directory" -> <<"/", "data", "proj">>
    [] source = "in_workspace" -> contracts_dir
    [] source = "in_workspace_missing" -> contracts_dir \o <<"gone">>
    [] source = "ancestor" -> workspace_root

\* _clear_directory(path): every child of path goes, path stays.
_clear_directory(files, path) == {f \in files : ~Under(f, path)}

\* shutil.copytree(src, dst, dirs_exist_ok=True) and shutil.copy2(src, dst).
copytree(files, src, dst) ==
  files \cup {dst \o SubSeq(f, Len(src) + 1, Len(f)) :
                f \in {g \in files : Under(g, src)}}
copy2(files, src, dst) == files \cup {dst}

\* materialize_project_sources copying over what the directory holds.
materialize_project_sources_NoClear(source, files) ==
  LET path == SourcePath(source)
      is_dir == \E f \in files : Under(f, path)
  IN  IF IsRelativeTo(path, ThisWorkspace)
        THEN [ret |-> Returned("source"), files |-> files]
      ELSE IF ~(path \in files \/ is_dir)
        THEN [ret |-> Raised("FileNotFoundError"), files |-> files]
      ELSE IF is_dir
        THEN [ret |-> IF IsRelativeTo(contracts_dir, path)
                        THEN Raised("RecursionError")
                        ELSE Returned("contracts_dir"),
              files |-> copytree(files, path, contracts_dir)]
      ELSE [ret |-> Returned("contracts_dir"),
            files |-> copy2(files, path, contracts_dir \o <<path[Len(path)]>>)]

\* materialize_project_sources(project_path, workspace) on the files of the
\* disk, after ensure_created: the value or exception, and the files left.
\* copytree of a directory that holds the workspace descends into its own
\* destination until Python's recursion limit; the model keeps one descent.
materialize_project_sources(source, files) ==
  LET path == SourcePath(source)
      is_dir == \E f \in files : Under(f, path)
      cleared == _clear_directory(files, contracts_dir)
  IN  IF IsRelativeTo(path, ThisWorkspace)
        THEN [ret |-> Returned("source"), files |-> files]
      ELSE IF ~(path \in files \/ is_dir)
        THEN [ret |-> Raised("FileNotFoundError"), files |-> files]
      ELSE IF is_dir
        THEN [ret |-> IF IsRelativeTo(contracts_dir, path)
                        THEN Raised("RecursionError")
                        ELSE Returned("contracts_dir"),
              files |-> copytree(cleared, path, contracts_dir)]
      ELSE [ret |-> Returned("contracts_dir"),
            files |-> copy2(cleared, path, contracts_dir \o <<path[Len(path)]>>)]

\* The files of the disk from the names in the contracts directory and the
\* files outside it, and back.
DiskFiles(children, outside) ==
  {contracts_dir \o <<name>> : name \in children} \cup outside
ContractsChildren(files) ==
  {f[Len(contracts_dir) + 1] : f \in {g \in files : Under(g, contracts_dir)}}
OutsideContracts(files) == {f \in files : ~Under(f, contracts_dir)}

\* Workspace.path_relative_to_root: Path.relative_to gives a Path, whose
\* as_posix() is returned; in the except clause rel is path.name, a str, and
\* str has no as_posix.
path_relative_to_root(root, path) ==
  IF IsRelativeTo(path, root)
    THEN Returned(as_posix(SubSeq(path, Len(root) + 1, Len(path))))
    ELSE Raised("AttributeError")

RECURSIVE SeqsUpTo(_, _)
SeqsUpTo(S, n) ==
  IF n = 0 THEN {<<>>}
  ELSE LET shorter == SeqsUpTo(S, n - 1)
       IN shorter \cup {Append(s, x) : s \in {q \in shorter : Len(q) = n - 1}, x \in S}

VARIABLES
  scan_exists,      \* whether the Scan row of the job exists
  scan,             \* the committed Scan row
  tool_executions,  \* the committed ToolExecution rows of the job, by row id
  fs_dirs,          \* the workspace directories that exist on disk
  pc,               \* where run_scan_sync stands
  executions,       \* the row ids run_scan_sync queried, in processing order
  i,                \* position of the loop in executions
  exec_,            \* the session's copy of the row being processed
  exc,              \* whether runner.run raised
  wrote_reason,     \* whether runner.run assigned failure_reason in this call
  processed,        \* the row ids the loop has been through in this invocation
  outcome,          \* how the last invocation ended
  runs,             \* invocations so far
  call,             \* the last direct call of a helper: its name and arguments
  ret,              \* what that call returned or raised
  contracts_children, \* the names found in the workspace's contracts directory
  fs_files,         \* the files on disk outside that contracts directory
  workers,          \* where each concurrent worker stands in the bootstrap
  finding_rows      \* the Finding rows stored by the adapter runs called directly

vars == <<scan_exists, scan, tool_executions, fs_dirs, pc, executions, i, exec_,
          exc, wrote_reason, processed, outcome, runs, call, ret,
          contracts_children, fs_files, workers, finding_rows>>

\* The tree copied from a project path that is a directory, and the name of
\* one that is a single file.
SourceTree == {"Token.sol", "lib"}
SourceFile == "Token.sol"

\* No helper has been called directly.
NoCall == [fn |-> "none"]

\* Worker processes that run run_scan_sync for the job at the same time, and
\* the state of one that has not started.
Workers == {"w1", "w2"}
NoWorkers == [w \in Workers |-> [pc |-> "start", existing_by_tool |-> {}]]

\* datetime.utcnow(): the clock advances from one reading to the next; the
\* reading is numbered by the invocation and the place of the call in it.
TicksPerRun == 2 * MaxTools + 3
AtLoad == 0
AtMark == 1
AtBegin(k) == 2 * k
AtFinish(k) == 2 * k + 1
AtFinalize == 2 * MaxTools + 2
utcnow(place) == runs * TicksPerRun + place

\* ------------------------------------------------------------ state machine
NoExecution == NewToolExecution("custom")

Init ==
  /\ scan_exists \in BOOLEAN
  /\ scan \in {[status |-> PENDING, started_at |-> None, finished_at |-> None,
                logs |-> None, tools |-> ts] : ts \in SeqsUpTo(ToolNames, MaxTools)}
  /\ tool_executions = <<>>
  /\ fs_dirs = {}
  /\ pc = "idle"
  /\ executions = <<>>
  /\ i = 1
  /\ exec_ = NoExecution
  /\ exc = FALSE
  /\ wrote_reason = FALSE
  /\ processed = {}
  /\ outcome = "none"
  /\ runs = 0
  /\ call = NoCall
  /\ ret = None
  /\ contracts_children = {}
  /\ fs_files = OutsideFiles
  /\ workers = NoWorkers
  /\ finding_rows = <<>>

\* The session's view of the loop is dropped when run_scan_sync is left.
LeaveLoop ==
  /\ exec_' = NoExecution
  /\ exc' = FALSE
  /\ wrote_reason' = FALSE

\* run_scan_sync returns: "completed" after the loop, "aborted" from the
\* except clause around _load_scan_context.
Return(how) ==
  /\ pc' = "idle"
  /\ outcome' = how
  /\ LeaveLoop

\* An exception leaves run_scan_sync through its finally clause: nothing of the
\* pending transaction is committed.
Propagate ==
  /\ pc' = "idle"
  /\ outcome' = "raised"
  /\ executions' = <<>>
  /\ i' = 1
  /\ processed' = {}
  /\ LeaveLoop
  /\ UNCHANGED <<scan_exists, scan, tool_executions>>

\* run_scan_sync is called and SessionLocal() returns a session.
Invoke ==
  /\ UNCHANGED <<finding_rows, workers, call, ret, contracts_children, fs_files>>
  /\ pc = "idle"
  /\ runs < MaxRuns
  /\ runs' = runs + 1
  /\ pc' = "load"
  /\ outcome' = "none"
  /\ executions' = <<>>
  /\ i' = 1
  /\ processed' = {}
  /\ LeaveLoop
  /\ UNCHANGED <<scan_exists, scan, tool_executions, fs_dirs>>

\* LoadFailed without the synthetic log entry.
LoadFailed_NoLog ==
  /\ UNCHANGED runs
  /\ \/ /\ ~scan_exists
        /\ UNCHANGED <<scan_exists, scan, tool_executions, executions, i, processed>>
        /\ Return("aborted")
     \/ /\ scan_exists
        /\ scan' = [scan EXCEPT !.status = FAILED,
                                !.finished_at = Some(utcnow(AtLoad))]
        /\ UNCHANGED <<scan_exists, tool_executions, executions, i, processed>>
        /\ Return("aborted")

\* The except clause around _load_scan_context: the scan, if its row exists,
\* becomes FAILED and its logs hold the runner's entry.
LoadFailed ==
  /\ UNCHANGED runs
  /\ \/ /\ ~scan_exists
        /\ UNCHANGED <<scan_exists, scan, tool_executions, executions, i, processed>>
        /\ Return("aborted")
     \/ /\ scan_exists
        /\ scan' = [scan EXCEPT !.status = FAILED,
                                !.finished_at = Some(utcnow(AtLoad)),
                                !.logs = Some(RunnerFailureLog)]
        /\ UNCHANGED <<scan_exists, tool_executions, executions, i, processed>>
        /\ Return("aborted")

\* LoadScanContext going on after a directory could not be made.
LoadScanContext_IgnoresMkdirError ==
  /\ UNCHANGED <<finding_rows, workers, call, ret, fs_files>>
  /\ pc = "load"
  /\ \/ /\ ~scan_exists
        /\ UNCHANGED <<fs_dirs, contracts_children>>
        /\ LoadFailed
     \/ /\ scan_exists
        /\ \E made \in 0..Len(WorkspaceDirs) :
             fs_dirs' = fs_dirs \cup {WorkspaceDirs[k] : k \in 1..made}
        /\ \/ /\ UNCHANGED contracts_children
              /\ LoadFailed
           \/ /\ contracts_children' = SourceTree
              /\ pc' = "mark"
              /\ UNCHANGED <<scan_exists, scan, tool_executions, executions, i, exec_,
                             exc, wrote_reason, processed, outcome, runs>>

\* _load_scan_context: the scan row is read, create_workspace makes the
\* directories one by one, materialize_project_sources raises for a missing
\* source path or a failed copy (after the contracts directory was cleared),
\* or leaves the copied tree.
LoadScanContext ==
  /\ UNCHANGED <<finding_rows, workers, call, ret, fs_files>>
  /\ pc = "load"
  /\ \/ /\ ~scan_exists
        /\ UNCHANGED <<fs_dirs, contracts_children>>
        /\ LoadFailed
     \/ /\ scan_exists
        /\ \E made \in 0..(Len(WorkspaceDirs) - 1) :
             /\ WorkspaceDirs[made + 1] \notin fs_dirs
             /\ fs_dirs' = fs_dirs \cup {WorkspaceDirs[k] : k \in 1..made}
        /\ UNCHANGED contracts_children
        /\ LoadFailed
     \/ /\ scan_exists
        /\ fs_dirs' = {WorkspaceDirs[k] : k \in DOMAIN WorkspaceDirs}
        /\ \/ /\ contracts_children' \in {contracts_children, {}}
              /\ LoadFailed
           \/ /\ contracts_children' = SourceTree
              /\ pc' = "mark"
              /\ UNCHANGED <<scan_exists, scan, tool_executions, executions, i, exec_,
                             exc, wrote_reason, processed, outcome, runs>>

\* "Mark scan as running": status, started_at, commit.
MarkScanRunning ==
  /\ UNCHANGED <<finding_rows, workers, call, ret, contracts_children, fs_files>>
  /\ pc = "mark"
  /\ UNCHANGED <<fs_dirs, runs>>
  /\ scan' = [scan EXCEPT !.status = RUNNING,
                          !.started_at = IF @ = None THEN Some(utcnow(AtMark))
                                         ELSE @]
  /\ pc' = "ensure"
  /\ UNCHANGED <<scan_exists, tool_executions, executions, i, exec_, exc,
                 wrote_reason, processed, outcome>>

\* _ensure_tool_executions and the query of the executions to process.
EnsureToolExecutions ==
  /\ UNCHANGED <<finding_rows, workers, call, ret, contracts_children, fs_files>>
  /\ pc = "ensure"
  /\ UNCHANGED <<fs_dirs, runs>>
  /\ tool_executions' = _ensure_tool_executions(tool_executions, scan.tools)
  /\ executions' = OrderedExecutions(tool_executions')
  /\ i' = 1
  /\ pc' = "loop"
  /\ UNCHANGED <<scan_exists, scan, exec_, exc, wrote_reason, processed, outcome>>

\* The loop's branch for a tool without a runner.
UnsupportedTool ==
  /\ UNCHANGED <<finding_rows, workers, call, ret, contracts_children, fs_files>>
  /\ pc = "loop"
  /\ i <= Len(executions)
  /\ tool_executions[executions[i]].tool \notin tool_runners
  /\ UNCHANGED <<fs_dirs, runs>>
  /\ tool_executions' =
       [tool_executions EXCEPT
          ![executions[i]] = MarkUnsupported(@, utcnow(AtBegin(i)))]
  /\ processed' = processed \cup {executions[i]}
  /\ i' = i + 1
  /\ UNCHANGED <<scan_exists, scan, pc, executions, exec_, exc, wrote_reason,
                 outcome>>

\* The loop's branch for a tool with a runner, up to the commit before run.
BeginTool ==
  /\ UNCHANGED <<finding_rows, workers, call, ret, contracts_children, fs_files>>
  /\ pc = "loop"
  /\ i <= Len(executions)
  /\ tool_executions[executions[i]].tool \in tool_runners
  /\ UNCHANGED <<fs_dirs, runs>>
  /\ tool_executions' =
       [tool_executions EXCEPT
          ![executions[i]] = MarkRunning(@, utcnow(AtBegin(i)))]
  /\ exec_' = tool_executions'[executions[i]]
  /\ pc' = "run"
  /\ UNCHANGED <<scan_exists, scan, executions, i, exc, wrote_reason, processed,
                 outcome>>

\* runner.run returns or raises.
AdapterRun ==
  /\ UNCHANGED <<finding_rows, workers, call, ret, contracts_children, fs_files>>
  /\ pc = "run"
  /\ \E o \in runner_run(exec_) :
       /\ exec_' = o.exec
       /\ exc' = o.exc
       /\ wrote_reason' = o.wrote
       /\ tool_executions' =
            IF o.flushed = None THEN tool_executions
            ELSE [tool_executions EXCEPT ![executions[i]] = o.flushed[1]]
  /\ pc' = "post"
  /\ UNCHANGED <<scan_exists, scan, fs_dirs, executions, i, processed, outcome, runs>>

\* FinishTool leaving the loop when the adapter raised.
FinishTool_BreaksOnException ==
  /\ UNCHANGED <<finding_rows, workers, call, ret, contracts_children, fs_files>>
  /\ pc = "post"
  /\ UNCHANGED <<fs_dirs, runs>>
  /\ tool_executions' =
       [tool_executions EXCEPT ![executions[i]] =
          FinalizeExecution(IF exc THEN OnRunnerException(exec_) ELSE exec_,
                            utcnow(AtFinish(i)))]
  /\ processed' = processed \cup {executions[i]}
  /\ i' = IF exc THEN Len(executions) + 1 ELSE i + 1
  /\ pc' = "loop"
  /\ UNCHANGED <<scan_exists, scan, executions, outcome>>
  /\ LeaveLoop

\* What follows runner.run in the loop: the except clause, the timing, the
\* default status, the commit.
FinishTool ==
  /\ UNCHANGED <<finding_rows, workers, call, ret, contracts_children, fs_files>>
  /\ pc = "post"
  /\ UNCHANGED <<fs_dirs, runs>>
  /\ tool_executions' =
       [tool_executions EXCEPT ![executions[i]] =
          FinalizeExecution(IF exc THEN OnRunnerException(exec_) ELSE exec_,
                            utcnow(AtFinish(i)))]
  /\ processed' = processed \cup {executions[i]}
  /\ i' = i + 1
  /\ pc' = "loop"
  /\ UNCHANGED <<scan_exists, scan, executions, outcome>>
  /\ LeaveLoop

\* "Finalize scan status based on tool results".
FinalizeScan ==
  /\ UNCHANGED <<finding_rows, workers, call, ret, contracts_children, fs_files>>
  /\ pc = "loop"
  /\ i > Len(executions)
  /\ UNCHANGED <<fs_dirs, runs>>
  /\ scan' = [scan EXCEPT !.finished_at = Some(utcnow(AtFinalize)),
                          !.status = FinalStatus(tool_executions),
                          !.logs = Some(StoredSnapshot(
                                      _build_logs_snapshot(tool_executions)))]
  /\ UNCHANGED <<scan_exists, tool_executions, executions, i, processed>>
  /\ Return("completed")

Next ==
  \/ Invoke
  \/ LoadScanContext
  \/ MarkScanRunning
  \/ EnsureToolExecutions
  \/ UnsupportedTool
  \/ BeginTool
  \/ AdapterRun
  \/ FinishTool
  \/ FinalizeScan

Spec == Init /\ [][Next]_vars

\* The persistence layer fails: SessionLocal() raises when run_scan_sync is
\* called, or a query or commit of the step at hand raises. run_scan_sync has
\* a finally clause and no except clause around these.
PersistenceFails ==
  /\ UNCHANGED <<finding_rows, workers, call, ret, contracts_children, fs_files>>
  /\ \/ /\ pc = "idle"
        /\ runs < MaxRuns
        /\ runs' = runs + 1
     \/ /\ pc \in {"load", "mark", "ensure", "loop", "post"}
        /\ UNCHANGED runs
  /\ Propagate
  /\ UNCHANGED fs_dirs

NextFaults == Next \/ PersistenceFails

SpecFaults == Init /\ [][NextFaults]_vars

\* The worker process stops in the middle of run_scan_sync: what was committed
\* stays, the session and everything uncommitted are gone.
Crash ==
  /\ UNCHANGED <<finding_rows, workers, call, ret, contracts_children, fs_files>>
  /\ pc /= "idle"
  /\ pc' = "idle"
  /\ outcome' = "crashed"
  /\ executions' = <<>>
  /\ i' = 1
  /\ processed' = {}
  /\ LeaveLoop
  /\ UNCHANGED <<scan_exists, scan, tool_executions, fs_dirs, runs>>

NextCrash == Next \/ Crash

SpecCrash == Init /\ [][NextCrash]_vars

\* ------------------------------------------------------ concurrent workers
\* Two workers were handed the same job and both reached
\* _ensure_tool_executions. Each reads the committed rows in its own session
\* and later commits its inserts; the table has no unique constraint on
\* (scan_id, tool), so a commit never fails.
WorkersElseUntouched ==
  UNCHANGED <<scan_exists, scan, fs_dirs, pc, executions, i, exec_, exc,
              wrote_reason, processed, outcome, runs, call, ret,
              contracts_children, fs_files, finding_rows>>

BootstrapRead(w) ==
  /\ workers[w].pc = "start"
  /\ workers' = [workers EXCEPT ![w] =
                    [pc |-> "read",
                     existing_by_tool |-> ExistingByTool(tool_executions)]]
  /\ UNCHANGED tool_executions
  /\ WorkersElseUntouched

BootstrapInsert(w) ==
  /\ workers[w].pc = "read"
  /\ tool_executions' =
       AddMissing(tool_executions, scan.tools, workers[w].existing_by_tool)
  /\ workers' = [workers EXCEPT ![w].pc = "done"]
  /\ WorkersElseUntouched

InitWorkers ==
  /\ Init
  /\ scan_exists

NextWorkers ==
  \E w \in Workers : BootstrapRead(w) \/ BootstrapInsert(w)

SpecWorkers == InitWorkers /\ [][NextWorkers]_vars

\* ------------------------------------------------- helpers called directly
\* The helpers of the adapters, the classifier and the workspace, called on
\* their own with arguments drawn from the sets below. A behaviour holds one
\* call of a helper that leaves the filesystem alone, or a sequence of calls
\* of the workspace's helpers.
AdapterNames == {"slither", "echidna", "foundry"}

\* Texts a process may leave on stdout and stderr.
StderrTexts ==
  LET phrases == {"timeout", "cannot connect to the docker daemon",
                  "compilererror", "slither: command not found", "panic:", "other"}
  IN  {{}} \cup {{a, b} : a, b \in phrases}
StdoutTexts ==
  {EmptyOutput} \cup
  {Text({a}, "valid") : a \in {"timeout", "compilererror",
                               "slither: command not found", "other"}}

\* ToolResult values handed to classify_tool_failure.
ClassifierInputs ==
  {[success |-> FALSE, output |-> out,
    error |-> IF err = {} THEN None ELSE Some(err),
    return_code |-> rc, parsing_error |-> pe, failure_reason |-> fr] :
     out \in StdoutTexts, err \in StderrTexts, rc \in {None, Some(0), Some(1)},
     pe \in {None, Some("JSONDecodeError")},
     fr \in {None, Some(""), Some("timeout"), Some("process-spawn-error"),
             Some("command-failed")}}

\* ToolResult values run_command hands an adapter.
AdapterInputs ==
  {Completed(rc, out, err) :
     rc \in {0, 1},
     out \in {EmptyOutput, Text({"other"}, "valid"), Text({"other"}, "invalid"),
              Text({"other"}, "nondict")},
     err \in {{}, {"timeout"}, {"compilererror"}}}
  \cup {TimedOut(EmptyOutput), TimedOut(Text({"other"}, "invalid")),
        SpawnFailed(EmptyOutput, {"other"})}

\* Processes handed to run_command: whether the binary can be started, how
\* long the process runs, and how it would end.
Processes ==
  {[spawns |-> sp, duration |-> d, rc |-> rc, out |-> Text({"other"}, "valid"),
    partial |-> partial, err |-> IF rc = 0 THEN {} ELSE {"other"}] :
     sp \in BOOLEAN, d \in {2, 4, 6}, rc \in {0, 1, 2},
     partial \in {EmptyOutput, Text({"other"}, "invalid")}}
\* The timeout and max_runtime arguments of run_command.
TimeoutArgs == {3, 5}
MaxRuntimeArgs == {None, Some(0), Some(1), Some(5)}

\* Scan.target values, and names of the project root's folder.
ScanTargets ==
  { <<>>, <<".">>, <<"/">>, <<"contracts">>, <<"Foo.sol">>,
    <<"contracts", "/", "Foo.sol">>, <<"src", "/", "Foo.sol">>,
    <<"/", "contracts", "/", "Foo.sol">>, <<".", "/", "Foo.sol">> }
ProjectRootNames == {"contracts", "src", "myproject"}

\* Primary keys are uuid4 strings: one path component each.
ProjectIds == {"p-1", "p-2"}
ScanIds == {"s-1", "s-2", "s-3"}

\* Project.path values, and values of settings.projects_host_root.
StoredPaths ==
  { <<"C:", "/", "repo", "/", "contracts">>, <<"/", "contracts">>,
    <<"contracts">>, <<"/", "workspaces", "/", "demo">>, <<>> }
HostRootBases == {None, Some(<<"C:", "/", "repo">>), Some(<<"/", "srv", "/", "projects">>)}

\* Paths handed to Workspace.path_relative_to_root.
SomePaths ==
  { ThisWorkspace \o <<"logs", "slither", "stdout.log">>,
    ThisWorkspace \o <<"artifacts">>,
    ThisWorkspace,
    build_workspace_root("p-1", "s-2") \o <<"logs", "slither", "stdout.log">>,
    <<"/", "tmp", "stdout.log">> }

\* Project paths handed to materialize_project_sources, by what they name.
SourceKinds ==
  {"missing", "file", "directory", "in_workspace", "in_workspace_missing",
   "ancestor"}

InitCalls ==
  /\ scan_exists = TRUE
  /\ scan = [status |-> PENDING, started_at |-> None, finished_at |-> None,
             logs |-> None, tools |-> <<>>]
  /\ tool_executions = <<>>
  /\ \/ fs_dirs = {} /\ contracts_children = {}
     \/ /\ fs_dirs = {WorkspaceDirs[k] : k \in DOMAIN WorkspaceDirs}
        /\ contracts_children \in {{}, {"Old.sol"}}
  /\ pc = "idle"
  /\ executions = <<>>
  /\ i = 1
  /\ exec_ = NoExecution
  /\ exc = FALSE
  /\ wrote_reason = FALSE
  /\ processed = {}
  /\ outcome = "none"
  /\ runs = 0
  /\ call = NoCall
  /\ ret = None
  /\ fs_files = OutsideFiles
  /\ workers = NoWorkers
  /\ finding_rows = <<>>

\* A direct call leaves the job and the run alone.
RunnerUntouched ==
  UNCHANGED <<scan_exists, scan, tool_executions, pc, executions, i, exec_, exc,
              wrote_reason, processed, outcome, runs, workers>>

\* classify_tool_failure(tool, result).
ClassifyCall ==
  /\ call = NoCall
  /\ \E tool \in AdapterNames, result \in ClassifierInputs :
       /\ call' = [fn |-> "classify_tool_failure", tool |-> tool, result |-> result]
       /\ ret' = Returned(classify_tool_failure(tool, result))
  /\ UNCHANGED <<fs_dirs, contracts_children, fs_files, finding_rows>>
  /\ RunnerUntouched

\* An adapter's run on an execution the runner has just marked RUNNING, from
\* the result of run_command on.
AdapterCall ==
  /\ call = NoCall
  /\ \E tool \in AdapterNames, result \in AdapterInputs :
       LET e == MarkRunning(NewToolExecution(tool), utcnow(AtBegin(1)))
       IN  /\ call' = [fn |-> "run", tool |-> tool, result |-> result]
           /\ ret' = CASE tool = "slither" -> SlitherAfterCommand(e, result)
                       [] tool = "echidna" -> EchidnaAfterCommand(e, result)
                       [] tool = "foundry" -> FoundryAfterCommand(e, result)
  /\ UNCHANGED <<fs_dirs, contracts_children, fs_files, finding_rows>>
  /\ RunnerUntouched

\* run_command(cmd, timeout=..., max_runtime=...).
RunCommandCall ==
  /\ call = NoCall
  /\ \E proc \in Processes, timeout \in TimeoutArgs, max_runtime \in MaxRuntimeArgs :
       /\ call' = [fn |-> "run_command", proc |-> proc, timeout |-> timeout,
                   max_runtime |-> max_runtime]
       /\ ret' = Returned(run_command(proc, timeout, max_runtime))
  /\ UNCHANGED <<fs_dirs, contracts_children, fs_files, finding_rows>>
  /\ RunnerUntouched

\* The findings an adapter's run persists, from the result of run_command on:
\* a first run for an execution, or a further run for the same execution.
FindingsCall ==
  /\ \E tool \in AdapterNames, result \in AdapterInputs, entries \in 0..MaxEntries :
       /\ \/ call = NoCall
          \/ /\ call.fn = "run.findings"
             /\ call.tool = tool
             /\ Len(finding_rows) <= MaxEntries
       /\ call' = [fn |-> "run.findings", tool |-> tool, result |-> result,
                   entries |-> entries]
       /\ ret' = AdapterFindings(tool, result, entries)
       /\ finding_rows' = IF ret'.raised = "" THEN finding_rows \o ret'.value.created
                          ELSE finding_rows
  /\ UNCHANGED <<fs_dirs, contracts_children, fs_files>>
  /\ RunnerUntouched

\* _dispatch_scan for a scan _create_scan has just committed.
DispatchCall ==
  /\ call = NoCall
  /\ \E delay_ok \in BOOLEAN, commit_ok \in BOOLEAN, fallback_commit_ok \in BOOLEAN :
       /\ call' = [fn |-> "_dispatch_scan", delay_ok |-> delay_ok,
                   commit_ok |-> commit_ok,
                   fallback_commit_ok |-> fallback_commit_ok]
       /\ ret' = _dispatch_scan(delay_ok, commit_ok, fallback_commit_ok)
  /\ UNCHANGED <<fs_dirs, contracts_children, fs_files, finding_rows>>
  /\ RunnerUntouched

\* The host mount path an adapter computes for project.path.
HostMountCall ==
  /\ call = NoCall
  /\ \E tool \in AdapterNames, raw_path \in StoredPaths, base \in HostRootBases :
       /\ call' = [fn |-> "host_mount_path", tool |-> tool, raw_path |-> raw_path,
                   base |-> base, project_root |-> ThisWorkspace \o <<"contracts">>]
       /\ ret' = Returned(HostMountPath(tool, raw_path, base,
                                        ThisWorkspace \o <<"contracts">>))
  /\ UNCHANGED <<fs_dirs, contracts_children, fs_files, finding_rows>>
  /\ RunnerUntouched

\* The container target an adapter computes for scan.target.
ResolveTargetCall ==
  /\ call = NoCall
  /\ \E tool \in AdapterNames, target \in ScanTargets, name \in ProjectRootNames :
       /\ call' = [fn |-> "_resolve_container_target", tool |-> tool,
                   scan_target |-> target, project_root_name |-> name]
       /\ ret' = Returned(IF tool = "foundry"
                            THEN FoundryContainerTarget(target)
                            ELSE _resolve_container_target(Some(target), name))
  /\ UNCHANGED <<fs_dirs, contracts_children, fs_files, finding_rows>>
  /\ RunnerUntouched

\* create_workspace(project_id, scan_id): the root, and the directories made.
CreateWorkspaceCall ==
  /\ call.fn \in {"none", "create_workspace", "materialize_project_sources"}
  /\ \E project_id \in ProjectIds, scan_id \in ScanIds :
       /\ call' = [fn |-> "create_workspace", project_id |-> project_id,
                   scan_id |-> scan_id]
       /\ ret' = Returned(build_workspace_root(project_id, scan_id))
       /\ fs_dirs' = IF build_workspace_root(project_id, scan_id) = ThisWorkspace
                       THEN {WorkspaceDirs[k] : k \in DOMAIN WorkspaceDirs}
                       ELSE fs_dirs
  /\ UNCHANGED <<contracts_children, fs_files, finding_rows>>
  /\ RunnerUntouched

\* materialize_project_sources(project_path, workspace) for a Workspace object
\* of this scan: ensure_created, the test for a source inside the workspace,
\* the test for existence, _clear_directory, the copy.
MaterializeCall ==
  /\ call.fn \in {"none", "create_workspace", "materialize_project_sources"}
  /\ \E source \in SourceKinds :
       LET done == materialize_project_sources(
                     source, DiskFiles(contracts_children, fs_files))
       IN  /\ call' = [fn |-> "materialize_project_sources", source |-> source,
                       before |-> contracts_children]
           /\ fs_dirs' = {WorkspaceDirs[k] : k \in DOMAIN WorkspaceDirs}
           /\ ret' = done.ret
           /\ contracts_children' = ContractsChildren(done.files)
           /\ fs_files' = OutsideContracts(done.files)
  /\ UNCHANGED finding_rows
  /\ RunnerUntouched

\* Workspace.path_relative_to_root(path) of this scan's workspace.
PathRelativeCall ==
  /\ call = NoCall
  /\ \E path \in SomePaths :
       /\ call' = [fn |-> "path_relative_to_root", path |-> path]
       /\ ret' = path_relative_to_root(ThisWorkspace, path)
  /\ UNCHANGED <<fs_dirs, contracts_children, fs_files, finding_rows>>
  /\ RunnerUntouched

NextCalls ==
  \/ ClassifyCall
  \/ AdapterCall
  \/ RunCommandCall
  \/ FindingsCall
  \/ HostMountCall
  \/ DispatchCall
  \/ ResolveTargetCall
  \/ CreateWorkspaceCall
  \/ MaterializeCall
  \/ PathRelativeCall

SpecCalls == InitCalls /\ [][NextCalls]_vars

\* ------------------------------------------------------------------- claims
Rows == DOMAIN tool_executions
RowsOf(t) == {k \in Rows : tool_executions[k].tool = t}
Requested == {scan.tools[k] : k \in DOMAIN scan.tools}
\* The loop stands at a row.
AtRow == i <= Len(executions)
\* The row the loop stands at, before and after the step.
Row == tool_executions[executions[i]]
RowAfter == tool_executions'[executions[i]]

\* C1: once the job's status is SUCCESS or FAILED it is never afterwards
\* PENDING or RUNNING, over any sequence of run_scan_sync invocations.
C1_TerminalStatusIsFinal ==
  [][scan.status \in {SUCCESS, FAILED} => scan'.status \in {SUCCESS, FAILED}]_vars

\* C2: when run_scan_sync completes after a successful load, the job is
\* SUCCESS if at least one of its executions is SUCCEEDED and FAILED otherwise.
C2_FinalStatusIsAggregate ==
  (pc = "idle" /\ outcome = "completed") =>
     /\ scan.status = SUCCESS <=> \E k \in Rows : tool_executions[k].status = SUCCEEDED
     /\ scan.status = FAILED <=> \A k \in Rows : tool_executions[k].status /= SUCCEEDED

\* A completed run over executions [SUCCEEDED, FAILED, FAILED] with the job SUCCESS.
C2_Witness ==
  /\ pc = "idle" /\ outcome = "completed"
  /\ Len(executions) = 3
  /\ tool_executions[executions[1]].status = SUCCEEDED
  /\ tool_executions[executions[2]].status = FAILED
  /\ tool_executions[executions[3]].status = FAILED
  /\ scan.status = SUCCESS

\* C3: in a run that completes, every ToolExecution of the job has been
\* processed and is SUCCEEDED or FAILED, whatever happened to earlier tools.
C3_EveryExecutionProcessed ==
  (pc = "idle" /\ outcome = "completed") =>
     /\ processed = Rows
     /\ \A t \in Requested : RowsOf(t) /= {}
     /\ \A k \in Rows : tool_executions[k].status \in {SUCCEEDED, FAILED}

\* A completed run whose first tool's adapter raised, whose second tool was
\* unsupported and whose third tool succeeded.
C3_Witness ==
  /\ pc = "idle" /\ outcome = "completed"
  /\ Len(executions) = 3
  /\ tool_executions[executions[1]].status = FAILED
  /\ tool_executions[executions[1]].failure_reason = Some("tool-runtime-error")
  /\ tool_executions[executions[2]].failure_reason = Some("unsupported_tool")
  /\ tool_executions[executions[3]].status = SUCCEEDED
  /\ tool_executions[executions[3]].attempt = 1

\* C4: run_scan_sync never propagates an exception to its caller, whichever
\* step fails inside it.
C4_NeverRaises == outcome /= "raised"

\* C5: a second _ensure_tool_executions for the same job creates no row,
\* changes no row, and leaves exactly one ToolExecution per requested name.
C5_BootstrapIdempotent ==
  [][(pc = "ensure" /\ pc' = "loop" /\ tool_executions /= <<>>) =>
        /\ tool_executions' = tool_executions
        /\ \A t \in Requested :
              Cardinality({k \in DOMAIN tool_executions' :
                             tool_executions'[k].tool = t}) = 1]_vars

\* C6: once the job is bootstrapped, exactly one ToolExecution exists per
\* requested tool name, also for a list naming a tool more than once.
C6_OneExecutionPerTool ==
  tool_executions /= <<>> =>
     /\ \A t \in Requested : Cardinality(RowsOf(t)) = 1
     /\ \A t \in ToolNames \ Requested : RowsOf(t) = {}

\* C7: a tool without a runner becomes FAILED with failure_reason
\* "unsupported_tool" and both timestamps, its step goes on to the next row
\* without calling a runner, and that is how it stands when the run completes.
C7_UnsupportedToolFails ==
  /\ [][(pc = "loop" /\ AtRow /\ Row.tool \notin tool_runners) =>
           /\ RowAfter.status = FAILED
           /\ RowAfter.failure_reason = Some("unsupported_tool")
           /\ RowAfter.started_at /= None
           /\ RowAfter.finished_at /= None
           /\ pc' = "loop"
           /\ i' = i + 1]_vars
  /\ [](pc \in {"run", "post"} => exec_.tool \in tool_runners /\ Row.tool \in tool_runners)
  /\ []((pc = "idle" /\ outcome = "completed") =>
           \A k \in Rows :
              tool_executions[k].tool \notin tool_runners =>
                 /\ tool_executions[k].status = FAILED
                 /\ tool_executions[k].failure_reason = Some("unsupported_tool"))

\* The loop has passed an unsupported tool and stands at the next row.
C7_Witness ==
  /\ pc = "loop" /\ AtRow /\ i > 1
  /\ tool_executions[executions[i - 1]].tool = "mythril"
  /\ tool_executions[executions[i - 1]].status = FAILED
  /\ tool_executions[executions[i - 1]].failure_reason = Some("unsupported_tool")
  /\ tool_executions[executions[i - 1]].finished_at /= None
  /\ Row.tool = "slither"

\* C8: when the adapter raises, the execution becomes FAILED with
\* failure_reason "runner_exception" unless the adapter assigned a reason in
\* that same call, on every run of the job.
C8_RunnerExceptionReason ==
  [][(pc = "post" /\ exc /\ pc' = "loop") =>
        /\ RowAfter.status = FAILED
        /\ RowAfter.failure_reason =
             IF wrote_reason THEN exec_.failure_reason
             ELSE Some("runner_exception")]_vars

\* C9: an adapter that returns leaving a non-terminal status has its
\* execution set to SUCCEEDED, and a SUCCEEDED execution makes the job SUCCESS.
C9_NonTerminalDefaultsToSucceeded ==
  /\ [][(pc = "post" /\ ~exc /\ exec_.status \in {PENDING, RUNNING, RETRYING}
           /\ pc' = "loop") =>
           RowAfter.status = SUCCEEDED]_vars
  /\ [][(pc = "loop" /\ ~AtRow /\ pc' = "idle"
           /\ \E k \in Rows : tool_executions[k].status = SUCCEEDED) =>
           scan'.status = SUCCESS]_vars

\* A completed run whose only SUCCEEDED execution is one its adapter left
\* RUNNING or RETRYING; the job is SUCCESS.
C9_Witness ==
  /\ pc = "idle" /\ outcome = "completed"
  /\ scan.status = SUCCESS
  /\ \E k \in Rows : tool_executions[k].tool = "custom"
                     /\ tool_executions[k].status = SUCCEEDED
  /\ \A k \in Rows : tool_executions[k].tool /= "custom" =>
                        tool_executions[k].status = FAILED

\* C10: when an adapter is about to be called, the ToolExecution row of its
\* tool is committed and the workspace's directories exist.
C10_RowAndWorkspaceBeforeAdapter ==
  pc = "run" =>
     /\ executions[i] \in Rows
     /\ Row.tool = exec_.tool
     /\ Row.status = RUNNING
     /\ {WorkspaceDirs[k] : k \in DOMAIN WorkspaceDirs} \subseteq fs_dirs

\* An adapter is about to be called in the job's first run.
C10_Witness == pc = "run" /\ runs = 1 /\ Row.tool = "slither"

\* C11: a load-time failure leaves everything as it was when the scan row does
\* not exist; when it exists the scan becomes FAILED with finished_at set and
\* logs holding the single entry of tool "runner" with status FAILED, no
\* ToolExecution is created and no adapter is invoked in that run.
C11_LoadFailure ==
  /\ [][(pc = "load" /\ pc' = "idle") =>
           /\ outcome' = "aborted"
           /\ tool_executions' = tool_executions
           /\ scan_exists' = scan_exists
           /\ ~scan_exists => scan' = scan /\ fs_dirs' = fs_dirs
           /\ scan_exists =>
                 /\ scan'.status = FAILED
                 /\ scan'.finished_at /= None
                 /\ scan'.logs = Some(<<[tool |-> "runner", status |-> FAILED]>>)]_vars
  /\ []((pc = "idle" /\ outcome = "aborted") => processed = {})

\* The workspace could not be prepared for an existing scan: the run aborted
\* with the scan FAILED and the runner's log entry.
C11_Witness ==
  /\ pc = "idle" /\ outcome = "aborted" /\ scan_exists
  /\ scan.status = FAILED
  /\ scan.logs = Some(<<[tool |-> "runner", status |-> FAILED]>>)
  /\ "logs" \notin fs_dirs

\* C12: an adapter whose command ran past its runtime bound leaves the
\* failure_reason "tool-timeout" on the ToolExecution.
C12_TimeoutIsToolTimeout ==
  [][(pc = "run" /\ exec_.tool = "slither" /\ pc' = "post" /\ ~exc'
        /\ exec_' = SlitherAfterCommand(exec_, TimedOut(EmptyOutput)).exec) =>
        /\ exec_'.failure_reason = Some("tool-timeout")
        /\ \A k \in DOMAIN tool_executions' :
              tool_executions'[k].tool = exec_.tool =>
                 tool_executions'[k].failure_reason \in {None, Some("tool-timeout")}]_vars

\* C14: a failure_reason stored on a ToolExecution is one of the fourteen
\* codes of the taxonomy.
C14_FailureReasonInTaxonomy ==
  LET taxonomy ==
        {"docker-daemon-unavailable", "docker-image-not-found",
         "docker-binary-not-found", "tool-timeout", "tool-output-parse-error",
         "tool-compilation-error", "tool-build-error", "tool-not-found",
         "tool-runtime-error", "tool-non-zero-exit", "process-spawn-error",
         "unsupported_tool", "runner_exception", "unknown-error"}
  IN  \A k \in Rows :
         tool_executions[k].failure_reason /= None =>
            tool_executions[k].failure_reason[1] \in taxonomy

C15_StatusFollowsHarness ==
  (call.fn = "run" /\ ~ret.exc) =>
     /\ call.result.success <=> call.result.return_code = Some(0)
     /\ ret.exec.status = SUCCEEDED <=> call.result.success
     /\ ret.exec.status = FAILED <=> ~call.result.success

\* Echidna's output could not be decoded after exit code 0: the execution is
\* SUCCEEDED and carries the parsing error.
C15_Witness ==
  /\ call.fn = "run" /\ call.tool = "echidna" /\ ~ret.exc
  /\ call.result.return_code = Some(0)
  /\ call.result.output.json = "invalid"
  /\ ret.exec.status = SUCCEEDED
  /\ ret.exec.parsing_error /= None

\* C16: for each adapter, a process that exits successfully with output that
\* cannot be parsed leaves both parsing_error and failure_reason set.
C16_ParseFailureRecorded ==
  (call.fn = "run" /\ ~ret.exc /\ call.result.success
     /\ call.result.output.json = "invalid") =>
     /\ Truthy(ret.exec.parsing_error)
     /\ Truthy(ret.exec.failure_reason)

\* C17: every adapter maps the target "", "." or "/" to "/project", strips a
\* first segment that is the project root's folder name, and appends any
\* other target to "/project".
C17_ContainerTargetMapping ==
  call.fn = "_resolve_container_target" =>
     LET target == call.scan_target
     IN  /\ target \in {<<>>, <<".">>, <<"/">>} => ret.value = <<"/", "project">>
         /\ (target /= <<>> /\ target[1] = call.project_root_name) =>
               ret.value = <<"/", "project">> \o SubSeq(target, 2, Len(target))
         /\ (target /= <<>> /\ target[1] \notin {"/", ".", call.project_root_name}) =>
               ret.value = <<"/", "project", "/">> \o target

C19_MissingSourceRaisesUntouched ==
  [][(call'.fn = "materialize_project_sources"
        /\ call'.source \in {"missing", "in_workspace_missing"}) =>
        /\ ret'.raised = "FileNotFoundError"
        /\ fs_dirs' = fs_dirs
        /\ contracts_children' = contracts_children]_vars

\* C20: path_relative_to_root returns for every path: the forward-slash
\* relative path of one under the root, the file name of one outside it.
C20_PathRelativeNeverFails ==
  call.fn = "path_relative_to_root" =>
     /\ ret.raised = ""
     /\ IsRelativeTo(call.path, ThisWorkspace) =>
           ret.value = as_posix(SubSeq(call.path, Len(ThisWorkspace) + 1,
                                       Len(call.path)))
     /\ ~IsRelativeTo(call.path, ThisWorkspace) =>
           ret.value = <<call.path[Len(call.path)]>>

\* C21: the classifier's rules are tried in the order timeout phrase, recorded
\* parse error, docker-daemon, docker-binary, docker-image, compilation,
\* build, tool-not-found, runtime crash, non-zero exit; for a result that
\* matches two of them the code of the first that matches is returned.
C21_FirstMatchingRuleWins ==
  LET r == call.result
      text == r.output.phrases \cup (IF r.error = None THEN {} ELSE r.error[1])
      signature ==
        << {"timeout", "timed out"},
           {},
           {"cannot connect to the docker daemon", "is the docker daemon running",
            "permission denied while trying to connect to the docker daemon"},
           {"no such file or directory: 'docker'", "docker: not found"},
           {"pull access denied for", "repository does not exist",
            "manifest unknown", "no such image"},
           {"compilererror", "parsererror", "typeerror", "syntaxerror",
            "could not compile", "failed to compile", "compile error",
            "error while compiling"},
           {"forge build failed", "failed to build", "build failed",
            "error: could not compile"},
           {"echidna-test: command not found", "echidna: command not found",
            "slither: command not found", "forge: command not found",
            "foundry: command not found"},
           {"runtime error", "panic:", "stack trace:", "segmentation fault",
            "segfault"},
           {} >>
      code ==
        << "tool-timeout", "tool-output-parse-error", "docker-daemon-unavailable",
           "docker-binary-not-found", "docker-image-not-found",
           "tool-compilation-error", "tool-build-error", "tool-not-found",
           "tool-runtime-error", "tool-non-zero-exit" >>
      matches(k) ==
        CASE k = 2 -> Truthy(r.parsing_error)
          [] k = 10 -> r.return_code /= None /\ r.return_code /= Some(0)
          [] OTHER -> text \cap signature[k] /= {}
  IN  (call.fn = "classify_tool_failure"
         /\ r.failure_reason \notin {Some("timeout"), Some("process-spawn-error")}) =>
         \A k \in 1..10 :
            (/\ matches(k)
             /\ \A j \in 1..(k - 1) : ~matches(j)
             /\ \E j \in (k + 1)..10 : matches(j)) =>
               ret.value = code[k]

\* C22: a failed result without an explicit reason whose stdout, and not its
\* stderr, holds "timeout" or "timed out" is classified "tool-timeout".
C22_TimeoutPhraseInStdout ==
  (call.fn = "classify_tool_failure"
     /\ ~Truthy(call.result.failure_reason)
     /\ call.result.output.phrases \cap {"timeout", "timed out"} /= {}
     /\ (call.result.error = None
           \/ call.result.error[1] \cap {"timeout", "timed out"} = {})) =>
     ret.value = "tool-timeout"

C24_MaxRuntimeIsTheBound ==
  (call.fn = "run_command" /\ call.proc.spawns) =>
     LET bound == IF call.max_runtime /= None THEN call.max_runtime[1]
                  ELSE call.timeout
     IN  ret.value.failure_reason = Some("timeout") <=> call.proc.duration > bound

\* C25: when an adapter's run returns, one call of store_normalized_findings
\* created a Finding row for every parsed finding, findings_count is the number
\* of rows created, and it is 0 when the harness failed or nothing was parsed.
C25_FindingsCountMatchesRows ==
  (call.fn = "run.findings" /\ ret.raised = "") =>
     /\ ret.value.store_calls = 1
     /\ ret.value.created = ret.value.parsed
     /\ ret.value.findings_count = Len(ret.value.created)
     /\ (~call.result.success \/ call.entries = 0
           \/ call.result.output.json /= "valid") => ret.value.findings_count = 0

\* C26: the host mount path of every adapter is the stored path itself when it
\* holds a drive marker, else the stored path without its leading slashes
\* under the configured host-root base, else the workspace's materialized root.
C26_HostMountResolutionOrder ==
  call.fn = "host_mount_path" =>
     ret.value = IF HasDriveMarker(call.raw_path)
                   THEN PathParts(call.raw_path)
                 ELSE IF call.base /= None
                   THEN PathParts(call.base[1]) \o PathParts(lstrip_slash(call.raw_path))
                 ELSE call.project_root

C28_OnlyContractsDirWritten ==
  [][call'.fn = "materialize_project_sources" =>
        LET path == SourcePath(call'.source)
            tree(files) == {f \in files : f = path \/ Under(f, path)}
        IN  /\ fs_files' = fs_files
            /\ fs_dirs' \ {"root", "contracts"} = fs_dirs \ {"root", "contracts"}
            /\ tree(DiskFiles(contracts_children', fs_files'))
                  = tree(DiskFiles(contracts_children, fs_files))]_vars

C30_StartedAtWriteOnce ==
  [][/\ scan.started_at /= None => scan'.started_at = scan.started_at
     /\ \A k \in Rows :
           tool_executions[k].started_at /= None =>
              /\ k \in DOMAIN tool_executions'
              /\ tool_executions'[k].started_at = tool_executions[k].started_at]_vars

\* In the job's second invocation a tool is at its second attempt; the job
\* and the execution carry the started_at of the first invocation.
C30_Witness ==
  /\ runs = 2 /\ pc = "run"
  /\ scan.started_at = Some(TicksPerRun + AtMark)
  /\ tool_executions[executions[i]].attempt = 2
  /\ tool_executions[executions[i]].started_at /= None
  /\ tool_executions[executions[i]].started_at[1] < 2 * TicksPerRun

\* C31: a new ToolExecution has attempt 0; no step lowers an attempt counter
\* or removes a row; the counter grows, by exactly one, in the step of the loop
\* that takes up the row (whether or not a runner exists for its tool) and in
\* no other step; and the adapter is about to be invoked only for a row the
\* loop has not been through in this invocation.
C31_AttemptCounter ==
  /\ [][/\ \A k \in DOMAIN tool_executions' \ Rows :
              tool_executions'[k].attempt = 0
        /\ \A k \in Rows :
              /\ k \in DOMAIN tool_executions'
              /\ tool_executions'[k].attempt =
                   IF pc = "loop" /\ AtRow /\ executions[i] = k
                     THEN tool_executions[k].attempt + 1
                     ELSE tool_executions[k].attempt]_vars
  /\ [](pc = "run" => executions[i] \notin processed)

\* Two invocations have completed: an execution with a runner and one without
\* are both at attempt 2.
C31_Witness ==
  /\ runs = 2 /\ pc = "idle" /\ outcome = "completed"
  /\ \E k \in RowsOf("slither") : tool_executions[k].attempt = 2
  /\ \E k \in RowsOf("mythril") : tool_executions[k].attempt = 2

C33_TimingAfterAdapter ==
  [][(pc = "post" /\ pc' = "loop") =>
        /\ RowAfter.finished_at = Some(utcnow(AtFinish(i)))
        /\ RowAfter.started_at /= None
        /\ RowAfter.duration_seconds =
              Some(utcnow(AtFinish(i)) - RowAfter.started_at[1])]_vars

\* C34: when an invocation of run_scan_sync for an existing job has returned,
\* whether or not an earlier invocation was cut short by a crash, the job is
\* SUCCESS or FAILED and every ToolExecution is SUCCEEDED or FAILED.
C34_ReentryEndsTerminal ==
  (pc = "idle" /\ outcome \in {"completed", "aborted"} /\ scan_exists) =>
     /\ scan.status \in {SUCCESS, FAILED}
     /\ \A k \in Rows : tool_executions[k].status \in {SUCCEEDED, FAILED}

\* C35: every change of the job's status is PENDING to RUNNING, RUNNING to
\* SUCCESS or RUNNING to FAILED, the change made on a load-time failure
\* included.
C35_JobStatusTransitions ==
  [][scan'.status /= scan.status =>
        <<scan.status, scan'.status>> \in
           {<<PENDING, RUNNING>>, <<RUNNING, SUCCESS>>, <<RUNNING, FAILED>>}]_vars

\* C36: while two workers bootstrap the same job (one that requests each of
\* its tools once), in whatever order their reads and inserts fall, no tool
\* name has more than one ToolExecution row.
C36_OneRowPerToolUnderRace ==
  (\A a, b \in DOMAIN scan.tools : a /= b => scan.tools[a] /= scan.tools[b]) =>
     \A t \in ToolNames : Cardinality(RowsOf(t)) <= 1

\* C37: after any number of runs of an adapter for the same execution, the
\* number of Finding rows stored for the tool equals the findings_count the
\* latest run left on the execution.
C37_FindingRowsMatchCount ==
  (call.fn = "run.findings" /\ ret.raised = "") =>
     Cardinality({k \in DOMAIN finding_rows : finding_rows[k].tool = call.tool})
       = ret.value.findings_count

\* C38: when Slither's adapter returns from a command that exited with 0 and
\* printed output that parses, in whichever run of the job, the execution is
\* SUCCEEDED with no failure_reason, on the session's object and in the row
\* the adapter committed.
C38_SuccessClearsFailureReason ==
  [][(pc = "run" /\ exec_.tool = "slither" /\ pc' = "post" /\ ~exc'
        /\ exec_' = SlitherAfterCommand(
                       exec_, Completed(0, Text({"other"}, "valid"), {})).exec) =>
        /\ exec_'.status = SUCCEEDED
        /\ exec_'.failure_reason = None
        /\ RowAfter.failure_reason = None]_vars

\* C39: _dispatch_scan hands the job to the orchestrator by exactly one path:
\* the task queue when delay succeeds and the inline call when it fails, also
\* when a commit of the dispatch metadata fails.
C39_ExactlyOneDispatchPath ==
  call.fn = "_dispatch_scan" =>
     /\ ret.value.queued /= ret.value.inline
     /\ ret.value.queued <=> call.delay_ok

\* C40: the code classify_tool_failure returns does not depend on the tool
\* name: every tool name gives the code returned for the same result, and the
\* not-found signature of slither in the output of another tool is classified
\* "tool-not-found" when no earlier rule applies.
C40_ToolNameIndependent ==
  call.fn = "classify_tool_failure" =>
     /\ \A t \in AdapterNames : classify_tool_failure(t, call.result) = ret.value
     /\ ( /\ call.result.output.phrases = {}
          /\ call.result.error = Some({"slither: command not found"})
          /\ ~Truthy(call.result.parsing_error)
          /\ call.result.failure_reason \notin {Some("timeout"), Some("process-spawn-error")} )
        => ret.value = "tool-not-found"
C40_Witness ==
  /\ call.fn = "classify_tool_failure"
  /\ call.tool = "foundry"
  /\ call.result.output.phrases = {}
  /\ call.result.error = Some({"slither: command not found"})
  /\ call.result.return_code = Some(1)
  /\ call.result.parsing_error = None
  /\ call.result.failure_reason = None
  /\ ret.value = "tool-not-found"

====
